---- MODULE Spec2Model ----
(***************************************************************************)
(* The link mutations of the link shortener (createShortLink,              *)
(* updateShortLink, deleteShortLink, getUserLinks) running concurrently    *)
(* against the short_links table through linkRepository.                   *)
(*                                                                         *)
(* A server function runs on a single-threaded event loop: its code        *)
(* between two awaits is atomic, and calls interleave only at an await.    *)
(* Each action below is one such piece: the execution of the awaited       *)
(* store query together with the code that follows it up to the next       *)
(* await (or the return).  The first piece of every function also holds    *)
(* `await auth()`, which reads no shared state.                            *)
(***************************************************************************)
EXTENDS Integers, Sequences, FiniteSets, TLC

VARIABLES
  links,    \* the rows of table short_links
  nextId,   \* how many rows were ever inserted (the k-th gets the k-th uuid)
  now,      \* the database clock
  call      \* the server-function call running in each slot

vars == <<links, nextId, now, call>>

----------------------------------------------------------------------------
(* Bounds of the model *)

\* rows ever inserted
MaxLinks == 2
\* last tick of the database clock
MaxTime == 1

\* slots for concurrently running calls
Calls == {"c1", "c2"}

----------------------------------------------------------------------------
(* Values *)

None == <<>>
Some(x) == <<x>>

Range(s) == {s[i] : i \in 1..Len(s)}
Fill(ch, n) == [i \in 1..n |-> ch]

\* what auth() resolves userId to; "" stands for the falsy values (null,
\* undefined, the empty string)
Users == {"user_1", "user_2"}
AuthUserIds == Users \cup {""}

\* the alphabet of generateShortCode
characters ==
  << "a","b","c","d","e","f","g","h","i","j","k","l","m",
     "n","o","p","q","r","s","t","u","v","w","x","y","z",
     "A","B","C","D","E","F","G","H","I","J","K","L","M",
     "N","O","P","Q","R","S","T","U","V","W","X","Y","Z",
     "0","1","2","3","4","5","6","7","8","9" >>

\* number of characters generateShortCode draws
GeneratedLength == 7
\* the retry limit of createShortLink's loop
MaxAttempts == 10
\* zod bounds of customCode
MinCodeLength == 3
MaxCodeLength == 20
\* varchar length of column short_code
ShortCodeColumnLength == 7

\* the outcomes of Math.random() the model draws: an index into characters
\* per call of generateShortCode (the same character at each position)
RandomIndices == {1, 28}

\* (mutant) a generator of six characters
generateShortCodeOfSix ==
  { [i \in 1..(GeneratedLength - 1) |-> characters[k]] : k \in RandomIndices }

\* generateShortCode(): the set of strings one call may return
generateShortCode ==
  { [i \in 1..GeneratedLength |-> characters[k]] : k \in RandomIndices }

\* the uuid the table gives its k-th row
Uuid(k) == <<"uuid", k>>

\* user input: urls (a sequence of url parts) and custom codes
ExampleUrl == <<"https", "://", "example.com">>
OtherUrl == <<"https", "://", "x.com">>
InvalidUrl == <<"invalid-url">>
Urls == {ExampleUrl, InvalidUrl}

CodeTooShort == <<"a", "b">>
CodeShortest == <<"a", "1", "_">>
CodeBadChar == <<"a", "-", "!">>
CodeLongest == Fill("Z", MaxCodeLength)
CodeTooLong == Fill("Z", MaxCodeLength + 1)
CustomCodes == {CodeTooShort, CodeShortest, CodeBadChar, CodeLongest, CodeTooLong}

CodeInputs == {None} \cup {Some(c) : c \in CustomCodes}

----------------------------------------------------------------------------
(* Messages of the error results *)

MSG_UNAUTHENTICATED == "Voce precisa estar autenticado"
MSG_URL == "URL invalida. Por favor, insira uma URL valida."
MSG_CODE_MIN == "O codigo deve ter pelo menos 3 caracteres."
MSG_CODE_MAX == "O codigo deve ter no maximo 20 caracteres."
MSG_CODE_REGEX == "O codigo deve conter apenas letras, numeros, hifens e underscores."
MSG_ID == "ID do link e obrigatorio"
MSG_CODE_IN_USE == "Este codigo ja esta em uso. Por favor, escolha outro."
MSG_EXHAUSTED == "Nao foi possivel gerar um codigo unico. Tente novamente."
MSG_NOT_FOUND == "Link nao encontrado"
MSG_FORBIDDEN_DELETE == "Voce nao tem permissao para excluir este link"
MSG_FORBIDDEN_UPDATE == "Voce nao tem permissao para editar este link"
MSG_CREATE_FAILED == "Erro ao criar link"
MSG_DELETE_FAILED == "Erro ao excluir link"
MSG_UPDATE_FAILED == "Erro ao atualizar link"

ValidationMessages == {MSG_URL, MSG_CODE_MIN, MSG_CODE_MAX, MSG_CODE_REGEX, MSG_ID}

\* the two shapes a server function returns, and a rejected promise
Success(link) == [success |-> TRUE, data |-> link]
Failure(message) == [error |-> message]
Thrown(message) == [thrown |-> message]

IsSuccess(r) == "success" \in DOMAIN r
IsFailure(r) == "error" \in DOMAIN r

----------------------------------------------------------------------------
(* Validation schemas (zod): each returns the messages of the issues found, *)
(* in the order zod reports them; parse throws a ZodError when any exists.  *)

\* z.string().url(): the string parses as an absolute URL
IsUrl(url) ==
  /\ Len(url) = 3
  /\ url[1] \in {"http", "https"}
  /\ url[2] = "://"
  /\ url[3] # ""

UrlIssues(url) == IF IsUrl(url) THEN <<>> ELSE <<MSG_URL>>

\* (mutant) a pattern that every string matches
MatchesAnything(code) == TRUE

\* /^[a-zA-Z0-9-_]+$/
MatchesCodeRegex(code) ==
  /\ Len(code) >= 1
  /\ \A i \in 1..Len(code) : code[i] \in Range(characters) \cup {"-", "_"}

\* .min(3).max(20).regex(...).optional(): every check of a string runs
CustomCodeIssues(customCode) ==
  IF customCode = None THEN <<>>
  ELSE LET code == customCode[1] IN
       (IF Len(code) < MinCodeLength THEN <<MSG_CODE_MIN>> ELSE <<>>)
       \o (IF Len(code) > MaxCodeLength THEN <<MSG_CODE_MAX>> ELSE <<>>)
       \o (IF MatchesCodeRegex(code) THEN <<>> ELSE <<MSG_CODE_REGEX>>)

\* z.string().min(1)
IdIssues(id) == IF Len(id) < 1 THEN <<MSG_ID>> ELSE <<>>

createLinkSchema(data) == UrlIssues(data.url) \o CustomCodeIssues(data.customCode)
deleteLinkSchema(data) == IdIssues(data.id)
updateLinkSchema(data) ==
  IdIssues(data.id) \o UrlIssues(data.url) \o CustomCodeIssues(data.customCode)

----------------------------------------------------------------------------
(* linkRepository over the rows of short_links *)

\* (mutant) a lookup that finds no row
findByShortCodeOfNobody(rows, shortCode) == None

findByShortCode(rows, shortCode) ==
  IF \E l \in rows : l.shortCode = shortCode
  THEN Some(CHOOSE l \in rows : l.shortCode = shortCode)
  ELSE None

findById(rows, id) ==
  IF \E l \in rows : l.id = id
  THEN Some(CHOOSE l \in rows : l.id = id)
  ELSE None

\* (mutant) ORDER BY created_at ASC
OldestFirst(rows) ==
  { s \in [1..Cardinality(rows) -> rows] :
      /\ \A i, j \in 1..Cardinality(rows) : s[i] = s[j] => i = j
      /\ \A i, j \in 1..Cardinality(rows) : i < j => s[i].createdAt <= s[j].createdAt }

\* the orders a query may return the rows in under ORDER BY created_at DESC:
\* rows with equal created_at come in any order
NewestFirst(rows) ==
  { s \in [1..Cardinality(rows) -> rows] :
      /\ \A i, j \in 1..Cardinality(rows) : s[i] = s[j] => i = j
      /\ \A i, j \in 1..Cardinality(rows) : i < j => s[i].createdAt >= s[j].createdAt }

\* the lists findByUserId may return
findByUserId(rows, userId) == NewestFirst({l \in rows : l.userId = userId})

\* (mutant) a table without the unique constraint on short_code
NoUniqueConstraint(rows, id, shortCode) == FALSE

\* the constraints of the table: short_code is unique and a varchar(7)
UniqueViolation(rows, id, shortCode) ==
  \E l \in rows : l.id # id /\ l.shortCode = shortCode

ValueTooLong(shortCode) == Len(shortCode) > ShortCodeColumnLength

\* the row an insert makes: id, createdAt and updatedAt take their defaults
NewRow(k, t, data) ==
  [ id |-> Uuid(k), userId |-> data.userId, originalUrl |-> data.originalUrl,
    shortCode |-> data.shortCode, createdAt |-> t, updatedAt |-> t ]

\* (mutant) an update that never writes the code
UpdatedRowKeepsCode(l, t, data) ==
  [ l EXCEPT !.originalUrl = data.originalUrl, !.updatedAt = t ]

\* (mutant) an update that leaves updatedAt as it is
UpdatedRowStale(l, t, data) ==
  [ l EXCEPT !.originalUrl = data.originalUrl,
             !.shortCode = IF data.shortCode = None THEN @ ELSE data.shortCode[1] ]

\* (mutant) an update that also rewrites the owner
UpdatedRowDisowned(l, t, data) ==
  [ l EXCEPT !.userId = "user_2", !.originalUrl = data.originalUrl,
             !.shortCode = IF data.shortCode = None THEN @ ELSE data.shortCode[1],
             !.updatedAt = t ]

\* the row an update makes of row l: .set(data) skips the keys whose value is
\* undefined, and $onUpdate refreshes updatedAt
UpdatedRow(l, t, data) ==
  [ l EXCEPT !.originalUrl = data.originalUrl,
             !.shortCode = IF data.shortCode = None THEN @ ELSE data.shortCode[1],
             !.updatedAt = t ]

----------------------------------------------------------------------------
(* The state of a call *)

NoData == [id |-> <<>>, url |-> <<>>, customCode |-> None]

\* pc: the await the call is suspended at ("idle": no call, "done": it has
\*   returned `result`)
\* userId, data, shortCode, attempts: the variables of the function that are
\*   read after an await (existing, link, deleted and updated are assigned by
\*   an await and read only before the next one)
\* log: the store queries and revalidations the call has issued, in order,
\*   each with its outcome
IdleCall ==
  [ pc |-> "idle", op |-> "none", userId |-> "", data |-> NoData,
    shortCode |-> <<>>, attempts |-> 0, result |-> None, log |-> <<>> ]

Init ==
  /\ links = {}
  /\ nextId = 1
  /\ now = 0
  /\ call = [c \in Calls |-> IdleCall]

Entry(fn, res) == [fn |-> fn, res |-> res]

\* the generic message of each function's catch block
GenericMessage(op) ==
  CASE op = "create" -> MSG_CREATE_FAILED
    [] op = "delete" -> MSG_DELETE_FAILED
    [] op = "update" -> MSG_UPDATE_FAILED

\* (mutant) a catch block that throws the error on
CatchRethrows(op, err) == Thrown(IF err # <<>> THEN err[1] ELSE "Error")

\* the catch block: err is the sequence of issues of a ZodError, or <<>> for
\* any other error
Catch(op, err) ==
  IF err # <<>> THEN Failure(err[1]) ELSE Failure(GenericMessage(op))

\* the call in slot c issues the queries `entries` and returns r
Return(c, r, entries) ==
  call' = [call EXCEPT ![c].pc = "done", ![c].result = Some(r),
                       ![c].log = @ \o entries]

\* the call in slot c issues the query `entry` and suspends at await pc
Await(c, pc, entry) ==
  call' = [call EXCEPT ![c].pc = pc, ![c].log = Append(@, entry)]

\* the value of userId in a call whose `await auth()` rejected: the
\* destructuring never ran
Unbound == "(unbound)"

\* what `await auth()` does: it rejects, or it resolves with a userId
AuthOutcomes ==
  {[throws |-> TRUE, userId |-> Unbound]}
    \cup {[throws |-> FALSE, userId |-> u] : u \in AuthUserIds}

SignedIn(users) == {[throws |-> FALSE, userId |-> u] : u \in users}

\* (mutant) the function goes to the store without parsing its payload
PrecheckWithoutParse(op, auth, issues) ==
  IF auth.throws THEN Some(Failure(GenericMessage(op)))
  ELSE IF auth.userId = "" THEN Some(Failure(MSG_UNAUTHENTICATED))
  ELSE None

\* (mutant) the payload is parsed before userId is checked
PrecheckParseFirst(op, auth, issues) ==
  IF auth.throws THEN Some(Failure(GenericMessage(op)))
  ELSE IF issues # <<>> THEN Some(Failure(issues[1]))
  ELSE IF auth.userId = "" THEN Some(Failure(MSG_UNAUTHENTICATED))
  ELSE None

\* the part of every function before its first store query: await auth(), the
\* check of userId, schema.parse(data).  None when the call goes on, or the
\* result it returns.
Precheck(op, auth, issues) ==
  IF auth.throws THEN Some(Catch(op, <<>>))
  ELSE IF auth.userId = "" THEN Some(Failure(MSG_UNAUTHENTICATED))
  ELSE IF issues # <<>> THEN Some(Catch(op, issues))
  ELSE None

\* a slot takes a new call once the result of the one before it was taken
Free(c) == call[c].pc = "idle"

Started(op, data, auth) ==
  [IdleCall EXCEPT !.op = op, !.data = data, !.userId = auth.userId]

\* (mutant) the success result is returned without a revalidation
ReturnWithoutRevalidate(c, op, row, entry) == Return(c, Success(row), <<entry>>)

\* revalidatePath('/dashboard') and the return of the success result; the
\* revalidation may throw into the catch block
RevalidateAndReturn(c, op, row, entry) ==
  \E rv \in {"ok", "throws"} :
    Return(c, IF rv = "ok" THEN Success(row) ELSE Catch(op, <<>>),
           <<entry, Entry("revalidatePath", rv)>>)

\* the ids a client can send: no id, the id of no row, and the ids of the
\* rows inserted so far (deleted or not)
RowIds == {Uuid(k) : k \in 1..(nextId - 1)}
AnyIds == {<<>>, Uuid(0)} \cup RowIds

----------------------------------------------------------------------------
(* createShortLink *)

\* (mutant) no loop: a taken candidate is kept
RetryNever(existing, attempts) == FALSE

\* (mutant) a loop that goes round once more
RetryOnceMore(existing, attempts) == existing # None /\ attempts < MaxAttempts + 1

\* the loop condition and the test after the loop
RetryAgain(existing, attempts) == existing # None /\ attempts < MaxAttempts
GaveUp(existing, attempts) == attempts >= MaxAttempts

\* the call up to its first findByShortCode
createShortLink(c, data, auth) ==
  /\ Free(c)
  /\ LET early == Precheck("create", auth, createLinkSchema(data))
         started == Started("create", data, auth)
     IN  IF early # None
         THEN call' = [call EXCEPT ![c] =
                         [started EXCEPT !.pc = "done", !.result = early]]
         ELSE IF data.customCode # None
         THEN call' = [call EXCEPT ![c] =
                         [started EXCEPT !.pc = "findCustom",
                                         !.shortCode = data.customCode[1]]]
         ELSE \E g \in generateShortCode :
                call' = [call EXCEPT ![c] =
                           [started EXCEPT !.pc = "findFirst", !.shortCode = g]]
  /\ UNCHANGED <<links, nextId, now>>

\* (mutant) the result of the lookup is ignored
CustomCodeCheckSkipped(existing) == None

\* what createShortLink does with the row its lookup of the custom code
\* returned: None to go on to the insert, or the result it returns
CustomCodeCheck(existing) ==
  IF existing # None THEN Some(Failure(MSG_CODE_IN_USE)) ELSE None

\* findByShortCode(validatedData.customCode) and the check of its result
CreateFindCustom(c) ==
  /\ call[c].pc = "findCustom" /\ call[c].op = "create"
  /\ \/ Return(c, Catch("create", <<>>), <<Entry("findByShortCode", "throws")>>)
     \/ LET existing == findByShortCode(links, call[c].data.customCode[1])
            refused == CustomCodeCheck(existing)
            entry == Entry("findByShortCode", IF existing # None THEN "row" ELSE "none")
        IN  IF refused # None
            THEN Return(c, refused[1], <<entry>>)
            ELSE Await(c, "create", entry)
  /\ UNCHANGED <<links, nextId, now>>

\* the code after a findByShortCode of a generated code: the while loop up to
\* its next await, or the test after it
AfterGeneratedLookup(c, existing, attempts) ==
  LET entry == Entry("findByShortCode", IF existing # None THEN "row" ELSE "none")
      base == [call[c] EXCEPT !.attempts = attempts, !.log = Append(@, entry)]
  IN  IF RetryAgain(existing, attempts)
      THEN \E g \in generateShortCode :
             call' = [call EXCEPT ![c] =
                        [base EXCEPT !.pc = "findRetry", !.shortCode = g]]
      ELSE IF GaveUp(existing, attempts)
      THEN call' = [call EXCEPT ![c] =
                      [base EXCEPT !.pc = "done",
                                   !.result = Some(Failure(MSG_EXHAUSTED))]]
      ELSE call' = [call EXCEPT ![c] = [base EXCEPT !.pc = "create"]]

\* the first findByShortCode(shortCode) of a generated code
CreateFindFirst(c) ==
  /\ call[c].pc = "findFirst"
  /\ \/ Return(c, Catch("create", <<>>), <<Entry("findByShortCode", "throws")>>)
     \/ AfterGeneratedLookup(c, findByShortCode(links, call[c].shortCode),
                             call[c].attempts)
  /\ UNCHANGED <<links, nextId, now>>

\* findByShortCode(shortCode) inside the loop, then attempts++
CreateFindRetry(c) ==
  /\ call[c].pc = "findRetry"
  /\ \/ Return(c, Catch("create", <<>>), <<Entry("findByShortCode", "throws")>>)
     \/ AfterGeneratedLookup(c, findByShortCode(links, call[c].shortCode),
                             call[c].attempts + 1)
  /\ UNCHANGED <<links, nextId, now>>

\* whether the table rejects shortCode as the short_code of row id, and the
\* error it raises
Rejected(rows, id, shortCode) ==
  UniqueViolation(rows, id, shortCode) \/ ValueTooLong(shortCode)

Rejection(rows, id, shortCode) ==
  IF ValueTooLong(shortCode) THEN "too_long" ELSE "duplicate"

\* (mutant) an insert that the table turned down is tried once more
CreateInsertRetrying(c) ==
  /\ call[c].pc = "create"
  /\ LET data == [userId |-> call[c].userId, originalUrl |-> call[c].data.url,
                  shortCode |-> call[c].shortCode]
         row == NewRow(nextId, now, data)
         entry == Entry("create", Rejection(links, row.id, row.shortCode))
     IN  \/ /\ Return(c, Catch("create", <<>>), <<Entry("create", "throws")>>)
            /\ UNCHANGED <<links, nextId>>
         \/ /\ Rejected(links, row.id, row.shortCode)
            /\ IF \E i \in 1..Len(call[c].log) : call[c].log[i].fn = "create"
               THEN Return(c, Catch("create", <<>>), <<entry>>)
               ELSE Await(c, "create", entry)
            /\ UNCHANGED <<links, nextId>>
         \/ /\ ~Rejected(links, row.id, row.shortCode)
            /\ nextId <= MaxLinks
            /\ links' = links \cup {row}
            /\ nextId' = nextId + 1
            /\ RevalidateAndReturn(c, "create", row, Entry("create", "row"))
  /\ UNCHANGED now

\* linkRepository.create, revalidatePath and the return
CreateInsert(c) ==
  /\ call[c].pc = "create"
  /\ LET data == [userId |-> call[c].userId, originalUrl |-> call[c].data.url,
                  shortCode |-> call[c].shortCode]
         row == NewRow(nextId, now, data)
     IN  \/ /\ Return(c, Catch("create", <<>>), <<Entry("create", "throws")>>)
            /\ UNCHANGED <<links, nextId>>
         \/ /\ Rejected(links, row.id, row.shortCode)
            /\ Return(c, Catch("create", <<>>), <<Entry("create", Rejection(links, row.id, row.shortCode))>>)
            /\ UNCHANGED <<links, nextId>>
         \/ /\ ~Rejected(links, row.id, row.shortCode)
            /\ nextId <= MaxLinks
            /\ links' = links \cup {row}
            /\ nextId' = nextId + 1
            /\ RevalidateAndReturn(c, "create", row, Entry("create", "row"))
  /\ UNCHANGED now

----------------------------------------------------------------------------
(* deleteShortLink *)

\* the call up to findById
deleteShortLink(c, id, auth) ==
  /\ Free(c)
  /\ LET data == [NoData EXCEPT !.id = id]
         early == Precheck("delete", auth, deleteLinkSchema(data))
         started == Started("delete", data, auth)
     IN  call' = [call EXCEPT ![c] =
                    IF early # None
                    THEN [started EXCEPT !.pc = "done", !.result = early]
                    ELSE [started EXCEPT !.pc = "findById"]]
  /\ UNCHANGED <<links, nextId, now>>

\* (mutant) any signed-in user may change a link that exists
OwnershipCheckFoundOnly(link, userId, forbidden) ==
  IF link = None THEN Some(Failure(MSG_NOT_FOUND)) ELSE None

\* (mutant) a missing link is reported like a link of another owner
OwnershipCheckCollapsed(link, userId, forbidden) ==
  IF link = None \/ link[1].userId # userId THEN Some(Failure(forbidden)) ELSE None

\* the ownership check both functions make of the row findById returned:
\* None when the caller may go on, or the result the call returns
OwnershipCheck(link, userId, forbidden) ==
  IF link = None THEN Some(Failure(MSG_NOT_FOUND))
  ELSE IF link[1].userId # userId THEN Some(Failure(forbidden))
  ELSE None

\* (mutant) the row is deleted before the ownership check is made
DeleteBeforeCheck(c) ==
  /\ call[c].pc = "findById" /\ call[c].op = "delete"
  /\ LET link == findById(links, call[c].data.id)
         refused == OwnershipCheck(link, call[c].userId, MSG_FORBIDDEN_DELETE)
         entry == Entry("findById", IF link # None THEN "row" ELSE "none")
     IN  /\ links' = {l \in links : l.id # call[c].data.id}
         /\ IF refused # None
            THEN Return(c, refused[1], <<entry>>)
            ELSE Await(c, "deleteById", entry)
  /\ UNCHANGED <<nextId, now>>

\* findById(validatedData.id) and the ownership check
DeleteFindById(c) ==
  /\ call[c].pc = "findById" /\ call[c].op = "delete"
  /\ \/ Return(c, Catch("delete", <<>>), <<Entry("findById", "throws")>>)
     \/ LET link == findById(links, call[c].data.id)
            refused == OwnershipCheck(link, call[c].userId, MSG_FORBIDDEN_DELETE)
            entry == Entry("findById", IF link # None THEN "row" ELSE "none")
        IN  IF refused # None
            THEN Return(c, refused[1], <<entry>>)
            ELSE Await(c, "deleteById", entry)
  /\ UNCHANGED <<links, nextId, now>>

\* (mutant) a delete that returns the row and leaves it in the table
DeleteByIdSoft(c) ==
  /\ call[c].pc = "deleteById"
  /\ LET deleted == findById(links, call[c].data.id) IN
       \/ Return(c, Catch("delete", <<>>), <<Entry("deleteById", "throws")>>)
       \/ /\ deleted = None
          /\ Return(c, Failure(MSG_DELETE_FAILED), <<Entry("deleteById", "none")>>)
       \/ /\ deleted # None
          /\ RevalidateAndReturn(c, "delete", deleted[1], Entry("deleteById", "row"))
  /\ UNCHANGED <<links, nextId, now>>

\* linkRepository.deleteById, revalidatePath and the return
DeleteById(c) ==
  /\ call[c].pc = "deleteById"
  /\ LET deleted == findById(links, call[c].data.id) IN
       \/ /\ Return(c, Catch("delete", <<>>), <<Entry("deleteById", "throws")>>)
          /\ UNCHANGED links
       \/ /\ deleted = None
          /\ Return(c, Failure(MSG_DELETE_FAILED), <<Entry("deleteById", "none")>>)
          /\ UNCHANGED links
       \/ /\ deleted # None
          /\ links' = links \ {deleted[1]}
          /\ RevalidateAndReturn(c, "delete", deleted[1], Entry("deleteById", "row"))
  /\ UNCHANGED <<nextId, now>>

----------------------------------------------------------------------------
(* updateShortLink *)

\* the call up to findById
updateShortLink(c, data, auth) ==
  /\ Free(c)
  /\ LET early == Precheck("update", auth, updateLinkSchema(data))
         started == Started("update", data, auth)
     IN  call' = [call EXCEPT ![c] =
                    IF early # None
                    THEN [started EXCEPT !.pc = "done", !.result = early]
                    ELSE [started EXCEPT !.pc = "findById"]]
  /\ UNCHANGED <<links, nextId, now>>

\* (mutant) every custom code given is looked up
CodeChangesWheneverGiven(customCode, link) == customCode # None

\* (mutant) no custom code is looked up
CodeChangesNever(customCode, link) == FALSE

\* whether the update looks the custom code up
CodeChanges(customCode, link) ==
  customCode # None /\ customCode[1] # link.shortCode

\* findById(validatedData.id), the ownership check and the test of the code
UpdateFindById(c) ==
  /\ call[c].pc = "findById" /\ call[c].op = "update"
  /\ \/ Return(c, Catch("update", <<>>), <<Entry("findById", "throws")>>)
     \/ LET link == findById(links, call[c].data.id)
            refused == OwnershipCheck(link, call[c].userId, MSG_FORBIDDEN_UPDATE)
            entry == Entry("findById", IF link # None THEN "row" ELSE "none")
        IN  IF refused # None
            THEN Return(c, refused[1], <<entry>>)
            ELSE IF CodeChanges(call[c].data.customCode, link[1])
            THEN Await(c, "findCustom", entry)
            ELSE Await(c, "update", entry)
  /\ UNCHANGED <<links, nextId, now>>

\* findByShortCode(validatedData.customCode) and the check of its result
UpdateFindCustom(c) ==
  /\ call[c].pc = "findCustom" /\ call[c].op = "update"
  /\ \/ Return(c, Catch("update", <<>>), <<Entry("findByShortCode", "throws")>>)
     \/ LET existing == findByShortCode(links, call[c].data.customCode[1])
            refused == CustomCodeCheck(existing)
            entry == Entry("findByShortCode", IF existing # None THEN "row" ELSE "none")
        IN  IF refused # None
            THEN Return(c, refused[1], <<entry>>)
            ELSE Await(c, "update", entry)
  /\ UNCHANGED <<links, nextId, now>>

\* linkRepository.update, revalidatePath and the return
UpdateWrite(c) ==
  /\ call[c].pc = "update"
  /\ LET old == findById(links, call[c].data.id)
         data == [originalUrl |-> call[c].data.url,
                  shortCode |-> call[c].data.customCode]
     IN  \/ /\ Return(c, Catch("update", <<>>), <<Entry("update", "throws")>>)
            /\ UNCHANGED links
         \/ /\ old = None
            /\ Return(c, Failure(MSG_UPDATE_FAILED), <<Entry("update", "none")>>)
            /\ UNCHANGED links
         \/ /\ old # None
            /\ LET row == UpdatedRow(old[1], now, data) IN
               IF Rejected(links, row.id, row.shortCode)
               THEN /\ Return(c, Catch("update", <<>>), <<Entry("update", Rejection(links, row.id, row.shortCode))>>)
                    /\ UNCHANGED links
               ELSE /\ links' = (links \ {old[1]}) \cup {row}
                    /\ RevalidateAndReturn(c, "update", row, Entry("update", "row"))
  /\ UNCHANGED <<nextId, now>>

----------------------------------------------------------------------------
(* getUserLinks: it has no try/catch, so an error of auth() or of the store *)
(* rejects the promise it returns                                           *)

\* (mutant) getUserLinks queries the store whatever userId is
getUserLinksUnchecked(c, auth) ==
  /\ Free(c)
  /\ LET started == Started("list", NoData, auth)
     IN  call' = [call EXCEPT ![c] =
                    IF auth.throws
                    THEN [started EXCEPT !.pc = "done", !.result = Some(Thrown("Error"))]
                    ELSE [started EXCEPT !.pc = "findByUserId"]]
  /\ UNCHANGED <<links, nextId, now>>

\* the call up to findByUserId
getUserLinks(c, auth) ==
  /\ Free(c)
  /\ LET started == Started("list", NoData, auth)
     IN  call' = [call EXCEPT ![c] =
                    IF auth.throws
                    THEN [started EXCEPT !.pc = "done", !.result = Some(Thrown("Error"))]
                    ELSE IF auth.userId = ""
                    THEN [started EXCEPT !.pc = "done", !.result = Some(<<>>)]
                    ELSE [started EXCEPT !.pc = "findByUserId"]]
  /\ UNCHANGED <<links, nextId, now>>

\* linkRepository.findByUserId(userId) and the return of its rows
GetUserLinksFind(c) ==
  /\ call[c].pc = "findByUserId"
  /\ \/ Return(c, Thrown("Error"), <<Entry("findByUserId", "throws")>>)
     \/ \E rows \in findByUserId(links, call[c].userId) :
          Return(c, rows, <<Entry("findByUserId", "rows")>>)
  /\ UNCHANGED <<links, nextId, now>>

----------------------------------------------------------------------------
(* The system *)

\* the caller takes the result of the call in slot c
Complete(c) ==
  /\ call[c].pc = "done"
  /\ call' = [call EXCEPT ![c] = IdleCall]
  /\ UNCHANGED <<links, nextId, now>>

\* time passes
Tick ==
  /\ now < MaxTime
  /\ now' = now + 1
  /\ UNCHANGED <<links, nextId, call>>

Payloads(ids, urls, codes) == [id : ids, url : urls, customCode : codes]

\* the calls the clients make: in the slots cs, with these outcomes of auth()
\* and these payloads
Creates(cs, auths, urls, codes) ==
  \E c \in cs, auth \in auths, data \in Payloads({<<>>}, urls, codes) :
    createShortLink(c, data, auth)

Deletes(cs, auths, ids) ==
  \E c \in cs, auth \in auths, id \in ids : deleteShortLink(c, id, auth)

Updates(cs, auths, ids, urls, codes) ==
  \E c \in cs, auth \in auths, data \in Payloads(ids, urls, codes) :
    updateShortLink(c, data, auth)

\* Spec: one user calls every function from two slots at once, creating with
\* generated and with custom codes
Next ==
  \/ Creates(Calls, SignedIn({"user_1"}), {ExampleUrl}, {None, Some(CodeShortest)})
  \/ Deletes(Calls, SignedIn({"user_1"}), RowIds)
  \/ Updates(Calls, SignedIn({"user_1"}), RowIds, {ExampleUrl}, {None, Some(CodeShortest)})
  \/ \E c \in Calls :
       \/ CreateFindCustom(c)
       \/ CreateFindFirst(c)
       \/ CreateFindRetry(c)
       \/ CreateInsert(c)
       \/ DeleteFindById(c)
       \/ DeleteById(c)
       \/ UpdateFindById(c)
       \/ UpdateFindCustom(c)
       \/ UpdateWrite(c)
       \/ Complete(c)

Spec == Init /\ [][Next]_vars

\* SpecInputs: slot c1 makes calls with every outcome of auth() and every
\* payload, valid or not, while the users create and delete links from
\* slot c2
NextInputs ==
  \/ Creates({"c1"}, AuthOutcomes, Urls, CodeInputs \ {None})
  \/ Deletes({"c1"}, AuthOutcomes, AnyIds)
  \/ Updates({"c1"}, AuthOutcomes, AnyIds, {OtherUrl, InvalidUrl}, CodeInputs)
  \/ Creates({"c2"}, SignedIn(Users), {ExampleUrl}, {Some(CodeShortest)})
  \/ Deletes({"c2"}, SignedIn(Users), RowIds)
  \/ \E c \in Calls :
       \/ CreateFindCustom(c)
       \/ CreateInsert(c)
       \/ DeleteFindById(c)
       \/ DeleteById(c)
       \/ UpdateFindById(c)
       \/ UpdateFindCustom(c)
       \/ UpdateWrite(c)
       \/ Complete(c)

SpecInputs == Init /\ [][NextInputs]_vars

\* the steps of a createShortLink call: the event loop resumes the call when
\* the store has answered its query
CreateSteps(c) ==
  CreateFindCustom(c) \/ CreateFindFirst(c) \/ CreateFindRetry(c) \/ CreateInsert(c)

\* SpecCreates: a user creates links from two slots at once, with generated
\* and with custom codes; every query of a call is answered in the end
NextCreates ==
  \/ Creates(Calls, SignedIn({"user_1"}), {ExampleUrl}, {None, Some(CodeShortest)})
  \/ \E c \in Calls : CreateSteps(c)
  \/ \E c \in Calls : Complete(c)

SpecCreates ==
  Init /\ [][NextCreates]_vars /\ \A c \in Calls : WF_vars(CreateSteps(c))

Lists(cs, auths) == \E c \in cs, auth \in auths : getUserLinks(c, auth)

\* the generated codes sent as custom codes
GeneratedAsCustom == {Some(g) : g \in generateShortCode}

\* SpecOwners: slot c1 creates links with generated codes, for two users and
\* for callers not signed in, with valid and invalid urls, while in slot c2 the
\* two users update and delete any of the links
NextOwners ==
  \/ Creates({"c1"}, SignedIn(AuthUserIds), Urls, {None})
  \/ Updates({"c2"}, SignedIn(Users), RowIds, {OtherUrl}, {None} \cup GeneratedAsCustom)
  \/ Deletes({"c2"}, SignedIn(Users), RowIds)
  \/ \E c \in Calls :
       \/ CreateFindFirst(c)
       \/ CreateFindRetry(c)
       \/ CreateInsert(c)
       \/ DeleteFindById(c)
       \/ DeleteById(c)
       \/ UpdateFindById(c)
       \/ UpdateFindCustom(c)
       \/ UpdateWrite(c)
       \/ Complete(c)

SpecOwners == Init /\ [][NextOwners]_vars

\* SpecLists: in slot c1 two users create links with custom codes, update
\* them and delete them, the clock advances, and slot c2 lists the links for
\* every outcome of auth()
NextLists ==
  \/ Creates({"c1"}, SignedIn(Users), {ExampleUrl}, GeneratedAsCustom)
  \/ Updates({"c1"}, SignedIn(Users), RowIds, {ExampleUrl}, {None})
  \/ Deletes({"c1"}, SignedIn(Users), RowIds)
  \/ Lists({"c2"}, AuthOutcomes)
  \/ Tick
  \/ \E c \in Calls :
       \/ CreateFindCustom(c)
       \/ CreateInsert(c)
       \/ DeleteFindById(c)
       \/ DeleteById(c)
       \/ UpdateFindById(c)
       \/ UpdateWrite(c)
       \/ GetUserLinksFind(c)
       \/ Complete(c)

SpecLists == Init /\ [][NextLists]_vars

----------------------------------------------------------------------------
(* What a returned call shows *)

Done(c) == call[c].pc = "done"
Result(c) == call[c].result[1]
Failed(c, message) == call[c].result = Some(Failure(message))

\* the issues the function's schema finds in the payload of the call
Issues(c) ==
  CASE call[c].op = "create" -> createLinkSchema(call[c].data)
    [] call[c].op = "delete" -> deleteLinkSchema(call[c].data)
    [] call[c].op = "update" -> updateLinkSchema(call[c].data)

ForbiddenMessage(op) ==
  IF op = "delete" THEN MSG_FORBIDDEN_DELETE ELSE MSG_FORBIDDEN_UPDATE

\* the entries of the log of call c made by the functions fns
Issued(c, fns) == SelectSeq(call[c].log, LAMBDA e : e.fn \in fns)
Writes == {"create", "update", "deleteById"}
Lookups == {"findByShortCode", "findById"}

\* a stored link with the id the call sent, owned by someone else
OthersLink(c) ==
  \E l \in links : l.id = call[c].data.id /\ l.userId # call[c].userId

----------------------------------------------------------------------------
(* C1 *)

\* C1: in every reachable state no two rows of the table have the same short
\* code (nor the same id), whatever calls of createShortLink, updateShortLink
\* and deleteShortLink have run and however their lookups and writes
\* interleaved.
C1_UniqueShortCode ==
  \A l1 \in links, l2 \in links :
    (l1.shortCode = l2.shortCode \/ l1.id = l2.id) => l1 = l2

\* two rows are stored and a write that had passed its pre-check was turned
\* down by the table
C1_Witness ==
  /\ Cardinality(links) = 2
  /\ \E c \in Calls : \E i \in 1..Len(call[c].log) :
       call[c].log[i].res = "duplicate"

----------------------------------------------------------------------------
(* C2 *)

----------------------------------------------------------------------------
(* C3 *)

\* C3: a returned createShortLink call without custom code all of whose
\* lookups found the candidate taken has returned the code-exhausted error
\* after exactly 10 lookups, and has inserted nothing.
C3_ExhaustedAfterTenLookups ==
  \A c \in Calls :
    (/\ Done(c)
     /\ call[c].op = "create"
     /\ call[c].data.customCode = None
     /\ call[c].log # <<>>
     /\ \A i \in 1..Len(call[c].log) :
          call[c].log[i] = Entry("findByShortCode", "row"))
    => /\ Failed(c, MSG_EXHAUSTED)
       /\ Len(call[c].log) = MaxAttempts

----------------------------------------------------------------------------
(* C4 *)

\* C4: a createShortLink call without custom code returns the code-exhausted
\* error only if none of its lookups found the candidate free, and a call one
\* of whose lookups found the candidate free goes on to the insert.
C4_ExhaustedOnlyIfNoneFree ==
  \A c \in Calls :
    (call[c].op = "create" /\ call[c].data.customCode = None)
    => /\ Failed(c, MSG_EXHAUSTED)
            => Issued(c, {"findByShortCode"})
                 = [i \in 1..Len(call[c].log) |-> Entry("findByShortCode", "row")]
       /\ (\E i \in 1..Len(call[c].log) :
             call[c].log[i] = Entry("findByShortCode", "none"))
            => \/ call[c].pc = "create"
               \/ Issued(c, {"create"}) # <<>>

----------------------------------------------------------------------------
(* C5 *)

\* C5: a returned createShortLink call whose insert the table turned down as
\* a duplicate short code has returned the code-in-use error when the code was
\* a custom code, and the code-exhausted error when it was generated.
C5_DuplicateMappedToConflict ==
  \A c \in Calls :
    (/\ Done(c)
     /\ call[c].op = "create"
     /\ Issued(c, {"create"}) = <<Entry("create", "duplicate")>>)
    => Failed(c, IF call[c].data.customCode # None
                 THEN MSG_CODE_IN_USE ELSE MSG_EXHAUSTED)

----------------------------------------------------------------------------
(* C6 *)

Messages ==
  ValidationMessages \cup
  { MSG_UNAUTHENTICATED, MSG_CODE_IN_USE, MSG_EXHAUSTED, MSG_NOT_FOUND,
    MSG_FORBIDDEN_DELETE, MSG_FORBIDDEN_UPDATE, MSG_CREATE_FAILED,
    MSG_DELETE_FAILED, MSG_UPDATE_FAILED }

RowFields == {"id", "userId", "originalUrl", "shortCode", "createdAt", "updatedAt"}

\* C6: every call of createShortLink, updateShortLink and deleteShortLink
\* that has ended has returned a result, which is either a success carrying a
\* link or an error carrying a message; no call ends by throwing, whatever
\* auth() and the store did.
C6_ReturnsNeverThrows ==
  \A c \in Calls :
    /\ Done(c) <=> call[c].result # None
    /\ Done(c) =>
         \/ /\ DOMAIN Result(c) = {"success", "data"}
            /\ Result(c).success = TRUE
            /\ DOMAIN Result(c).data = RowFields
         \/ /\ DOMAIN Result(c) = {"error"}
            /\ Result(c).error \in Messages

\* a call one of whose store queries raised has returned an error result
C6_Witness ==
  \E c \in Calls :
    /\ Done(c)
    /\ \E i \in 1..Len(call[c].log) :
         call[c].log[i].fn \in Writes /\ call[c].log[i].res = "throws"
    /\ IsFailure(Result(c))

----------------------------------------------------------------------------
(* C7 *)

\* C7: a returned createShortLink call with a custom code whose lookup found
\* a link with that code has returned the code-in-use error, and that lookup
\* (of the custom code itself) is the only store query it issued: no retry,
\* no other code, no insert.
C7_CustomCodeInUse ==
  \A c \in Calls :
    (/\ Done(c)
     /\ call[c].op = "create"
     /\ call[c].data.customCode # None
     /\ call[c].log # <<>>
     /\ call[c].log[1] = Entry("findByShortCode", "row"))
    => /\ Failed(c, MSG_CODE_IN_USE)
       /\ Len(call[c].log) = 1
       /\ call[c].shortCode = call[c].data.customCode[1]

\* a create was refused for a custom code that a link of another user has
C7_Witness ==
  \E c \in Calls :
    /\ Done(c) /\ call[c].op = "create"
    /\ Failed(c, MSG_CODE_IN_USE)
    /\ \E l \in links :
         /\ Some(l.shortCode) = call[c].data.customCode
         /\ l.userId # call[c].userId

----------------------------------------------------------------------------
(* C8 *)

\* a custom code the claim calls valid: 3 to 20 letters, digits, hyphens and
\* underscores
WellFormedCode(code) ==
  /\ Len(code) \in MinCodeLength..MaxCodeLength
  /\ \A i \in 1..Len(code) : code[i] \in Range(characters) \cup {"-", "_"}

\* C8: a returned createShortLink call of a signed-in caller with a valid url
\* and a custom code has succeeded with a link of exactly that code when the
\* code is well-formed and no stored link had it (the lookup found none and
\* the table saw no duplicate) and nothing raised; and has returned a
\* validation error when the code is not well-formed.
C8_WellFormedCustomCodeStored ==
  \A c \in Calls :
    (/\ Done(c)
     /\ call[c].op = "create"
     /\ call[c].userId \in Users
     /\ IsUrl(call[c].data.url)
     /\ call[c].data.customCode # None)
    => IF WellFormedCode(call[c].data.customCode[1])
       THEN (/\ call[c].log # <<>>
             /\ call[c].log[1] = Entry("findByShortCode", "none")
             /\ \A i \in 1..Len(call[c].log) :
                  call[c].log[i].res \notin {"throws", "duplicate"})
            => /\ IsSuccess(Result(c))
               /\ Result(c).data.shortCode = call[c].data.customCode[1]
       ELSE /\ IsFailure(Result(c))
            /\ Result(c).error \in ValidationMessages

----------------------------------------------------------------------------
(* C9 *)

\* C9 as stated: a call whose payload fails its schema has returned the
\* validation error without issuing any store query, whoever calls.
C9_ValidationErrorWhoeverCalls ==
  \A c \in Calls :
    (call[c].op # "none" /\ Issues(c) # <<>>)
    => /\ Done(c)
       /\ call[c].log = <<>>
       /\ Failed(c, Issues(c)[1])

\* C9: a call whose payload fails its schema (malformed url, malformed custom
\* code, empty id) has returned without issuing any store query, and, when
\* the caller is signed in, with the message of the first issue of the
\* schema.
C9_ValidationBeforeStore ==
  \A c \in Calls :
    (call[c].op # "none" /\ Issues(c) # <<>>)
    => /\ Done(c)
       /\ call[c].log = <<>>
       /\ call[c].userId \in Users
            => /\ Failed(c, Issues(c)[1])
               /\ Issues(c)[1] \in ValidationMessages

\* an update of a stored link with a malformed url was refused
C9_Witness ==
  \E c \in Calls :
    /\ Done(c) /\ call[c].op = "update" /\ call[c].userId \in Users
    /\ call[c].data.id \in {l.id : l \in links}
    /\ ~IsUrl(call[c].data.url)
    /\ Failed(c, MSG_URL)

----------------------------------------------------------------------------
(* C10 *)

----------------------------------------------------------------------------
(* C11 *)

\* the stored link an update call in slot c is about, when the caller owns it
\* and sends its current code as custom code
SameCodeUpdate(c) ==
  /\ call[c].op = "update"
  /\ \E l \in links :
       /\ l.id = call[c].data.id
       /\ l.userId = call[c].userId
       /\ call[c].data.customCode = Some(l.shortCode)

\* the entries the step adds to the log of call c
NewEntries(c) == SubSeq(call'[c].log, Len(call[c].log) + 1, Len(call'[c].log))

NothingRaised(entries) == \A i \in 1..Len(entries) : entries[i].res # "throws"

\* C11: when the owner updates a link with a valid url and a custom code equal
\* to the link's current code, the step that fetches the link goes straight on
\* to the store update without any lookup by code, and the update step
\* succeeds with the link's code unchanged (unless the store or the
\* revalidation raises).
C11_SameCodeNoLookup ==
  [][\A c \in Calls :
       (SameCodeUpdate(c) /\ call'[c] # call[c] /\ NothingRaised(NewEntries(c)))
       => LET l == findById(links, call[c].data.id)[1] IN
          /\ call[c].pc = "findById"
               => /\ call'[c].pc = "update"
                  /\ NewEntries(c) = <<Entry("findById", "row")>>
          /\ call[c].pc = "update"
               => /\ call'[c].pc = "done"
                  /\ IsSuccess(call'[c].result[1])
                  /\ call'[c].result[1].data \in links'
                  /\ call'[c].result[1].data.id = l.id
                  /\ call'[c].result[1].data.shortCode = l.shortCode
                  /\ call'[c].result[1].data.originalUrl = call[c].data.url
                  /\ NewEntries(c) = <<Entry("update", "row"), Entry("revalidatePath", "ok")>>
    ]_vars

\* an update with the link's own code has succeeded after findById and update
\* only
C11_Witness ==
  \E c \in Calls :
    /\ Done(c) /\ call[c].op = "update"
    /\ IsSuccess(Result(c))
    /\ call[c].data.customCode = Some(Result(c).data.shortCode)
    /\ call[c].log = << Entry("findById", "row"), Entry("update", "row"),
                        Entry("revalidatePath", "ok") >>

----------------------------------------------------------------------------
(* C12 *)

\* an update call in slot c by the owner of a stored link, with a custom code
\* that differs from the link's code and that another stored link has
TakenCodeUpdate(c) ==
  /\ call[c].op = "update"
  /\ call[c].data.customCode # None
  /\ \E l \in links, m \in links :
       /\ l.id = call[c].data.id
       /\ l.userId = call[c].userId
       /\ l.shortCode # call[c].data.customCode[1]
       /\ m.id # l.id
       /\ m.shortCode = call[c].data.customCode[1]

\* C12: when the owner updates a link with a custom code that differs from
\* the link's code and that another stored link has (whoever owns it), the
\* step that fetches the link goes on to the lookup by code, and the lookup
\* step returns the code-in-use error; neither changes the table and the call
\* issues no store write (unless a store query raises).
C12_UpdateCodeInUse ==
  [][\A c \in Calls :
       (TakenCodeUpdate(c) /\ call'[c] # call[c] /\ NothingRaised(NewEntries(c)))
       => /\ links' = links
          /\ call[c].pc = "findById"
               => /\ call'[c].pc = "findCustom"
                  /\ NewEntries(c) = <<Entry("findById", "row")>>
          /\ call[c].pc = "findCustom"
               => /\ call'[c].pc = "done"
                  /\ call'[c].result = Some(Failure(MSG_CODE_IN_USE))
                  /\ call'[c].log = << Entry("findById", "row"),
                                       Entry("findByShortCode", "row") >>
    ]_vars

\* an owner's update was refused for a code that a link of another user has
C12_Witness ==
  \E c \in Calls :
    /\ Done(c) /\ TakenCodeUpdate(c)
    /\ Failed(c, MSG_CODE_IN_USE)
    /\ \E m \in links :
         /\ m.shortCode = call[c].data.customCode[1]
         /\ m.userId # call[c].userId

----------------------------------------------------------------------------
(* C13 *)

\* C13: a returned update or delete call whose store write affected no row
\* (the link was deleted after the call had fetched it) has returned the
\* not-found error, and not a success.
C13_ZeroRowsIsNotFound ==
  \A c \in Calls :
    (/\ Done(c)
     /\ call[c].op \in {"update", "delete"}
     /\ call[c].log # <<>>
     /\ call[c].log[Len(call[c].log)]
          \in {Entry("update", "none"), Entry("deleteById", "none")})
    => /\ ~IsSuccess(Result(c))
       /\ Failed(c, MSG_NOT_FOUND)

----------------------------------------------------------------------------
(* C14 *)

\* the messages of the checks a mutation makes before its store write
PreWriteMessages ==
  ValidationMessages \cup
  { MSG_UNAUTHENTICATED, MSG_NOT_FOUND, MSG_FORBIDDEN_DELETE,
    MSG_FORBIDDEN_UPDATE, MSG_CODE_IN_USE, MSG_EXHAUSTED }

\* C14: the table changes only in a step in which a call's insert, update or
\* delete takes effect; a step in which a call returns the error of a
\* pre-write check (not signed in, invalid input, not found, no permission,
\* code in use, codes exhausted) leaves the table as it is, that call has
\* issued no store write at all, and the link of a delete refused for lack of
\* permission is in the table after the step.
C14_RejectedLeavesStore ==
  [][/\ links' # links
          => \E c \in Calls : \E i \in 1..Len(NewEntries(c)) :
               NewEntries(c)[i].fn \in Writes /\ NewEntries(c)[i].res = "row"
     /\ \A c \in Calls :
          (/\ call'[c] # call[c]
           /\ call'[c].pc = "done"
           /\ \E m \in PreWriteMessages : call'[c].result = Some(Failure(m)))
          => /\ links' = links
             /\ \A i \in 1..Len(call'[c].log) : call'[c].log[i].fn \notin Writes
             /\ call'[c].result = Some(Failure(MSG_FORBIDDEN_DELETE))
                  => \E l \in links' : l.id = call'[c].data.id
    ]_vars

\* a delete of another user's link was refused and the link is stored
C14_Witness ==
  \E c \in Calls :
    /\ Done(c) /\ call[c].op = "delete"
    /\ Failed(c, MSG_FORBIDDEN_DELETE)
    /\ OthersLink(c)

----------------------------------------------------------------------------
(* C15 *)

\* C15: the step in which getUserLinks of a signed-in caller returns (its
\* query not raising) returns a list that holds every link of the table owned
\* by the caller, each once, and no other link, with no link before one
\* created later; whatever creates, updates and deletes came before.
C15_OwnLinksNewestFirst ==
  [][\A c \in Calls :
       (/\ call[c].op = "list"
        /\ call[c].pc = "findByUserId"
        /\ call'[c].pc = "done"
        /\ NothingRaised(NewEntries(c)))
       => LET r == call'[c].result[1]
              own == {l \in links : l.userId = call[c].userId}
          IN  /\ call[c].userId \in Users
              /\ Range(r) = own
              /\ Len(r) = Cardinality(own)
              /\ \A i, j \in 1..Len(r) : i < j => r[i].createdAt >= r[j].createdAt
              /\ links' = links
    ]_vars

\* a list of two links was returned, the one created later first
C15_Witness ==
  \E c \in Calls :
    /\ Done(c) /\ call[c].op = "list"
    /\ call[c].log = <<Entry("findByUserId", "rows")>>
    /\ Len(Result(c)) = 2
    /\ Result(c)[1].createdAt > Result(c)[2].createdAt

----------------------------------------------------------------------------
(* C17 *)

----------------------------------------------------------------------------
(* C16 *)

\* C16: a createShortLink, updateShortLink or deleteShortLink call for which
\* auth() resolved no user identity has returned the unauthenticated error
\* and has issued no store lookup or write, whatever its payload.
C16_NoIdentityUnauthenticated ==
  \A c \in Calls :
    (call[c].op \in {"create", "update", "delete"} /\ call[c].userId = "")
    => /\ Done(c)
       /\ Failed(c, MSG_UNAUTHENTICATED)
       /\ call[c].log = <<>>

\* a caller not signed in sent an update of a stored link with an invalid
\* payload and got the unauthenticated error
C16_Witness ==
  \E c \in Calls :
    /\ Done(c) /\ call[c].op = "update" /\ call[c].userId = ""
    /\ call[c].data.id \in {l.id : l \in links}
    /\ Issues(c) # <<>>
    /\ Failed(c, MSG_UNAUTHENTICATED)

----------------------------------------------------------------------------
(* C18 *)

\* the codes looked up: every custom code of the inputs and every generated
\* code
ProbeCodes == CustomCodes \cup generateShortCode

\* C18: in every state findByShortCode returns each stored link for its code,
\* and the absent value for a code no stored link has; and a call's lookup of
\* a custom code (not raising) finds a row exactly when some stored link has
\* the code, whether or not the caller owns that link.
C18_LookupByCodeUnfiltered ==
  [][/\ \A l \in links : findByShortCode(links, l.shortCode) = Some(l)
     /\ \A code \in ProbeCodes :
          (\A l \in links : l.shortCode # code) => findByShortCode(links, code) = None
     /\ \A c \in Calls :
          (/\ call[c].pc = "findCustom"
           /\ call'[c] # call[c]
           /\ NothingRaised(NewEntries(c)))
          => NewEntries(c) =
               << Entry("findByShortCode",
                        IF \E l \in links : l.shortCode = call[c].data.customCode[1]
                        THEN "row" ELSE "none") >>
    ]_vars

\* a call's lookup has found the link of another user
C18_Witness ==
  \E c \in Calls :
    /\ call[c].data.customCode # None
    /\ call[c].log # <<>>
    /\ call[c].log[Len(call[c].log)] = Entry("findByShortCode", "row")
    /\ \E l \in links :
         /\ l.shortCode = call[c].data.customCode[1]
         /\ l.userId # call[c].userId
         /\ findByShortCode(links, l.shortCode) = Some(l)

----------------------------------------------------------------------------
(* C19 *)

\* C19: every row of the table after a step either was there before the step
\* with the same id and the same owner, or is a new row (an id no row had)
\* inserted in this step by a createShortLink call, with the signed-in
\* identity of that call as its owner.
C19_OwnerNeverChanges ==
  [][\A n \in links' :
       \/ \E l \in links : l.id = n.id /\ l.userId = n.userId
       \/ /\ n.id \notin RowIds
          /\ \E c \in Calls :
               /\ call[c].op = "create" /\ call[c].pc = "create"
               /\ call'[c].pc = "done"
               /\ call[c].userId \in Users
               /\ n.userId = call[c].userId
    ]_vars

\* an update has rewritten the url of a stored link, which is still its
\* creator's, after an update by another user was refused
C19_Witness ==
  /\ \E l \in links : l.originalUrl = OtherUrl
  /\ \E c \in Calls :
       /\ Done(c) /\ call[c].op = "update" /\ OthersLink(c)
       /\ Failed(c, MSG_FORBIDDEN_UPDATE)

----------------------------------------------------------------------------
(* C20 *)

\* a createShortLink call in slot c without custom code whose candidate no
\* stored link has
FreeCandidate(c) ==
  /\ call[c].op = "create"
  /\ call[c].data.customCode = None
  /\ \A l \in links : l.shortCode # call[c].shortCode

\* C20: when createShortLink of a signed-in caller with a valid url and no
\* custom code looks its first candidate up and no stored link has it, the
\* call goes on to the insert; and when it inserts a candidate that no stored
\* link has, it succeeds and returns the row it stored, whose owner is the
\* caller, whose url is the url given and whose code is the candidate, a
\* string of 7 letters and digits (unless the store or the revalidation
\* raises).
C20_GeneratedCodeCreated ==
  [][\A c \in Calls :
       (FreeCandidate(c) /\ call'[c] # call[c] /\ NothingRaised(NewEntries(c)))
       => /\ call[c].pc = "findFirst"
               => /\ call'[c].pc = "create"
                  /\ call'[c].shortCode = call[c].shortCode
                  /\ call'[c].log = <<Entry("findByShortCode", "none")>>
          /\ call[c].pc = "create"
               => LET r == call'[c].result[1] IN
                  /\ call'[c].pc = "done"
                  /\ IsSuccess(r)
                  /\ r.data \in links' \ links
                  /\ r.data.userId = call[c].userId
                  /\ call[c].userId \in Users
                  /\ r.data.originalUrl = call[c].data.url
                  /\ IsUrl(r.data.originalUrl)
                  /\ r.data.shortCode = call[c].shortCode
                  /\ Len(r.data.shortCode) = 7
                  /\ Range(r.data.shortCode) \subseteq Range(characters)
    ]_vars

\* a link with a generated code was created at the first attempt
C20_Witness ==
  \E c \in Calls :
    /\ Done(c) /\ call[c].op = "create" /\ call[c].data.customCode = None
    /\ IsSuccess(Result(c))
    /\ Result(c).data \in links
    /\ Len(Result(c).data.shortCode) = 7
    /\ call[c].log = << Entry("findByShortCode", "none"), Entry("create", "row"),
                        Entry("revalidatePath", "ok") >>

----------------------------------------------------------------------------
(* C21 *)

\* the store calls of call c: its lookups and its write
StoreCalls(c) == Issued(c, Lookups \cup Writes)

\* C21 as stated: no create, update or delete call issues more than two store
\* calls.
C21_AtMostTwoStoreCalls ==
  \A c \in Calls :
    call[c].op \in {"create", "update", "delete"} => Len(StoreCalls(c)) <= 2

\* C21 as amended: a call issues its store calls one after the other, lookups
\* first and at most one write, which is its last store call; a delete and a
\* create with a custom code issue at most two (one lookup, the write), an
\* update at most three (findById, the lookup of a changed code, the write),
\* and a create without custom code at most 11 (up to 10 lookups of
\* candidates and the insert, or 11 lookups and no insert).
C21_StoreCallsPerOperation ==
  \A c \in Calls :
    call[c].op \in {"create", "update", "delete"}
    => LET calls == StoreCalls(c)
           lookups == Len(Issued(c, Lookups))
       IN  /\ Len(Issued(c, Writes)) <= 1
           /\ \A i \in 1..Len(calls) : calls[i].fn \in Writes => i = Len(calls)
           /\ call[c].op = "delete" => lookups <= 1
           /\ call[c].op = "update" => lookups <= 2
           /\ call[c].op = "create" =>
                IF call[c].data.customCode # None
                THEN lookups <= 1
                ELSE lookups <= MaxAttempts + 1 /\ Len(calls) <= MaxAttempts + 1

\* an update has issued three store calls
C21_Witness ==
  \E c \in Calls :
    /\ Done(c) /\ call[c].op = "update"
    /\ StoreCalls(c) = << Entry("findById", "row"), Entry("findByShortCode", "none"),
                          Entry("update", "row") >>

----------------------------------------------------------------------------
(* C22 *)

\* C22: a row is either as it was before the step, or a new row with an id no
\* row ever had and createdAt and updatedAt at the time of the insert, or the
\* row an update call made of the row with its id: same createdAt, updatedAt
\* at the time of the update and not earlier than before.  A successful
\* updateShortLink returns such a row, and no row was updated before it was
\* created or after now.
C22_TimestampsKept ==
  [][/\ \A l \in links : l.createdAt <= l.updatedAt /\ l.updatedAt <= now
     /\ \A n \in links' :
          \/ n \in links
          \/ /\ n.id \notin RowIds
             /\ n.createdAt = now /\ n.updatedAt = now
          \/ \E l \in links \ links' :
               /\ l.id = n.id
               /\ n.createdAt = l.createdAt
               /\ n.updatedAt = now
               /\ n.updatedAt >= l.updatedAt
               /\ \E c \in Calls :
                    /\ call[c].op = "update" /\ call[c].pc = "update"
                    /\ call[c].data.id = l.id
                    /\ call'[c].pc = "done"
     /\ \A c \in Calls :
          (/\ call[c].op = "update" /\ call[c].pc = "update"
           /\ call'[c].pc = "done"
           /\ IsSuccess(call'[c].result[1]))
          => LET old == findById(links, call[c].data.id)
                 new == call'[c].result[1].data
             IN  /\ old # None
                 /\ new \in links'
                 /\ new.id = old[1].id
                 /\ new.createdAt = old[1].createdAt
                 /\ new.updatedAt = now
                 /\ new.updatedAt >= old[1].updatedAt
    ]_vars

\* a successful update has returned a stored row updated after it was created
C22_Witness ==
  \E c \in Calls :
    /\ Done(c) /\ call[c].op = "update"
    /\ IsSuccess(Result(c))
    /\ Result(c).data \in links
    /\ Result(c).data.updatedAt > Result(c).data.createdAt

----------------------------------------------------------------------------
(* C23 *)

\* C23: the step in which deleteShortLink succeeds returns the row the table
\* held under the id sent, and after the step no row has that id or that
\* row's code, so that findById and findByShortCode return the absent value
\* for them; no insert ever reuses an id; and a createShortLink with a custom
\* code that no stored row has (the code of a deleted link included) is not
\* refused as a conflict by its lookup.
C23_HardDelete ==
  [][/\ \A c \in Calls :
          (/\ call[c].op = "delete" /\ call[c].pc = "deleteById"
           /\ call'[c].pc = "done"
           /\ IsSuccess(call'[c].result[1]))
          => LET L == call'[c].result[1].data IN
             /\ L \in links
             /\ L.id = call[c].data.id
             /\ links' = links \ {L}
             /\ \A l \in links' : l.id # L.id /\ l.shortCode # L.shortCode
             /\ findById(links', L.id) = None
             /\ findByShortCode(links', L.shortCode) = None
     /\ \A n \in links' \ links :
          n.id \in RowIds => \E l \in links : l.id = n.id
     /\ \A c \in Calls :
          (/\ call[c].op = "create" /\ call[c].pc = "findCustom"
           /\ call'[c] # call[c]
           /\ NothingRaised(NewEntries(c))
           /\ \A l \in links : l.shortCode # call[c].data.customCode[1])
          => /\ call'[c].pc = "create"
             /\ NewEntries(c) = <<Entry("findByShortCode", "none")>>
    ]_vars

\* a link was deleted and a link with its code was created afterwards
C23_Witness ==
  \E c \in Calls, d \in Calls :
    /\ Done(d) /\ call[d].op = "delete" /\ IsSuccess(Result(d))
    /\ Done(c) /\ call[c].op = "create" /\ IsSuccess(Result(c))
    /\ Result(c).data \in links
    /\ Result(c).data.shortCode = Result(d).data.shortCode
    /\ Result(c).data.id # Result(d).data.id
    /\ Result(d).data \notin links

----------------------------------------------------------------------------
(* C24 *)

\* the revalidations of '/dashboard' call c has triggered
Revalidations(c) == Issued(c, {"revalidatePath"})

\* C24: a create, update or delete call that has returned success has
\* triggered exactly one revalidation, as its last step before returning and
\* right after its store write took effect; and a call whose log holds no
\* store write that took effect has triggered no revalidation.
C24_RevalidatedAfterWrite ==
  \A c \in Calls :
    call[c].op \in {"create", "update", "delete"}
    => LET log == call[c].log
           n == Len(call[c].log)
       IN  /\ (Done(c) /\ IsSuccess(Result(c)))
                => /\ n >= 2
                   /\ log[n] = Entry("revalidatePath", "ok")
                   /\ log[n - 1].fn \in Writes /\ log[n - 1].res = "row"
                   /\ Len(Revalidations(c)) = 1
           /\ (\A i \in 1..n : ~(log[i].fn \in Writes /\ log[i].res = "row"))
                => Revalidations(c) = <<>>

\* a delete has succeeded after deleteById and the revalidation, and another
\* call has failed before its write
C24_Witness ==
  \E c \in Calls, d \in Calls :
    /\ Done(c) /\ call[c].op = "delete" /\ IsSuccess(Result(c))
    /\ call[c].log = << Entry("findById", "row"), Entry("deleteById", "row"),
                        Entry("revalidatePath", "ok") >>
    /\ Done(d) /\ IsFailure(Result(d))
    /\ call[d].log # <<>>
    /\ Issued(d, Writes) = <<>>

----------------------------------------------------------------------------
(* C25 *)

\* the lookups of candidates that call c has made
CandidateLookups(c) == Issued(c, {"findByShortCode"})

\* C25: in a createShortLink call without custom code, a lookup step that
\* finds the candidate taken, with fewer than 10 retries made, draws a new
\* candidate and looks that one up next; a lookup step that finds the
\* candidate free, being the k-th lookup with k at most 10, goes on to the
\* insert with that candidate after exactly k lookups, all earlier ones
\* having found a row; and the insert step stores the candidate looked up
\* last, once (unless the store or the revalidation raises or the table
\* turns the row down).
C25_RetryUntilFree ==
  [][\A c \in Calls :
       (/\ call[c].op = "create" /\ call[c].data.customCode = None
        /\ call'[c] # call[c]
        /\ NothingRaised(NewEntries(c)))
       => LET taken == \E l \in links : l.shortCode = call[c].shortCode
              k == Len(call[c].log) + 1
          IN  /\ (call[c].pc \in {"findFirst", "findRetry"} /\ taken /\ k <= MaxAttempts)
                   => /\ call'[c].pc = "findRetry"
                      /\ call'[c].shortCode \in generateShortCode
                      /\ NewEntries(c) = <<Entry("findByShortCode", "row")>>
              /\ (call[c].pc \in {"findFirst", "findRetry"} /\ ~taken /\ k <= MaxAttempts)
                   => /\ call'[c].pc = "create"
                      /\ call'[c].shortCode = call[c].shortCode
                      /\ Len(call'[c].log) = k
                      /\ \A i \in 1..(k - 1) :
                           call'[c].log[i] = Entry("findByShortCode", "row")
                      /\ call'[c].log[k] = Entry("findByShortCode", "none")
              /\ (call[c].pc = "create" /\ NewEntries(c)[1].res = "row")
                   => /\ call'[c].pc = "done"
                      /\ IsSuccess(call'[c].result[1])
                      /\ call'[c].result[1].data.shortCode = call[c].shortCode
                      /\ links' = links \cup {call'[c].result[1].data}
                      /\ Len(Issued(c, {"create"})) = 0
    ]_vars

\* a link was created with the fourth candidate after three collisions
C25_Witness ==
  \E c \in Calls :
    /\ Done(c) /\ call[c].op = "create" /\ IsSuccess(Result(c))
    /\ Len(CandidateLookups(c)) = 4
    /\ \A i \in 1..3 : call[c].log[i] = Entry("findByShortCode", "row")
    /\ call[c].log[4] = Entry("findByShortCode", "none")
    /\ Len(Issued(c, {"create"})) = 1
    /\ Result(c).data.shortCode = call[c].shortCode
    /\ Result(c).data \in links

----------------------------------------------------------------------------
(* C26 *)

\* C26: the step in which updateShortLink succeeds replaces the row with the
\* id sent by the row it returns and leaves every other row as it is; the
\* new row has the id, owner and createdAt of the old one and the url sent;
\* without custom code it also has the old code and the call has looked no
\* code up; with a custom code it has exactly that code.
C26_UpdateChangesOnlyItsFields ==
  [][\A c \in Calls :
       (/\ call[c].op = "update" /\ call[c].pc = "update"
        /\ call'[c].pc = "done"
        /\ IsSuccess(call'[c].result[1]))
       => LET old == findById(links, call[c].data.id)
              new == call'[c].result[1].data
          IN  /\ old # None
              /\ links' = (links \ {old[1]}) \cup {new}
              /\ new.id = old[1].id
              /\ new.userId = old[1].userId
              /\ new.createdAt = old[1].createdAt
              /\ new.originalUrl = call[c].data.url
              /\ call[c].data.customCode = None
                   => /\ new.shortCode = old[1].shortCode
                      /\ Issued(c, {"findByShortCode"}) = <<>>
              /\ call[c].data.customCode # None
                   => new.shortCode = call[c].data.customCode[1]
    ]_vars

\* an update has given a link a new custom code that no link had
C26_Witness ==
  \E c \in Calls :
    /\ Done(c) /\ call[c].op = "update" /\ IsSuccess(Result(c))
    /\ call[c].log = << Entry("findById", "row"), Entry("findByShortCode", "none"),
                        Entry("update", "row"), Entry("revalidatePath", "ok") >>
    /\ Result(c).data \in links
    /\ Some(Result(c).data.shortCode) = call[c].data.customCode
    /\ Result(c).data.originalUrl = OtherUrl

----------------------------------------------------------------------------
(* C27 *)

\* C27: a create, update or delete call that has returned an error result has
\* made no change to the table: none of its store writes took effect.
C27_ErrorMeansNoChange ==
  \A c \in Calls :
    (/\ Done(c)
     /\ call[c].op \in {"create", "update", "delete"}
     /\ IsFailure(Result(c)))
    => \A i \in 1..Len(call[c].log) :
         ~(call[c].log[i].fn \in Writes /\ call[c].log[i].res = "row")

----------------------------------------------------------------------------
(* C28 *)

\* C28: every row that a step changes or removes is changed or removed by the
\* write step of an update or delete call that sent the row's id and whose
\* caller is the row's owner, however the steps of the calls of different
\* users interleave between a call's ownership check and its write.
C28_OnlyOwnerWrites ==
  [][\A l \in links :
       l \notin links'
       => \E c \in Calls :
            /\ call[c].op \in {"update", "delete"}
            /\ call[c].pc \in {"update", "deleteById"}
            /\ call'[c].pc = "done"
            /\ call[c].data.id = l.id
            /\ call[c].userId = l.userId
    ]_vars

\* a user's update was refused on another user's link while a delete by its
\* owner was between its ownership check and its write
C28_Witness ==
  \E c \in Calls, d \in Calls :
    /\ Done(c) /\ call[c].op = "update" /\ OthersLink(c)
    /\ Failed(c, MSG_FORBIDDEN_UPDATE)
    /\ call[d].op = "delete" /\ call[d].pc = "deleteById"
    /\ call[d].data.id = call[c].data.id
    /\ call[d].userId # call[c].userId

----------------------------------------------------------------------------
(* C29 *)

\* C29: a createShortLink call never makes more than 11 lookups of
\* candidates nor more than one insert, its retry counter never passes 10,
\* and every createShortLink call that is running returns in the end,
\* whatever the table holds.
C29_CreateTerminates ==
  /\ [](\A c \in Calls :
          call[c].op = "create"
          => /\ Len(CandidateLookups(c)) <= MaxAttempts + 1
             /\ Len(Issued(c, {"create"})) <= 1
             /\ call[c].attempts <= MaxAttempts)
  /\ \A c \in Calls :
       (call[c].op = "create" /\ ~Done(c)) ~> Done(c)

\* a call has returned after every one of its candidates was found taken
C29_Witness ==
  \E c \in Calls :
    /\ Done(c) /\ call[c].op = "create" /\ call[c].data.customCode = None
    /\ Len(CandidateLookups(c)) = MaxAttempts + 1
    /\ \A i \in 1..Len(call[c].log) : call[c].log[i] = Entry("findByShortCode", "row")
    /\ Issued(c, {"create"}) = <<>>

----------------------------------------------------------------------------
(* C30 *)

\* C30: in every reachable state every stored link has a code of 3 to 20
\* letters, digits, hyphens and underscores and a url that is an absolute
\* URL, whatever payloads, valid or not, the calls were made with.
C30_StoredLinksWellFormed ==
  \A l \in links :
    /\ Len(l.shortCode) >= 3
    /\ Len(l.shortCode) <= 20
    /\ \A i \in 1..Len(l.shortCode) :
         l.shortCode[i] \in Range(characters) \cup {"-", "_"}
    /\ IsUrl(l.originalUrl)

\* a link with a custom code was stored and updated, and a call with a
\* malformed custom code was turned down
C30_Witness ==
  /\ \E l \in links : l.shortCode = CodeShortest /\ l.originalUrl = OtherUrl
  /\ \E c \in Calls :
       /\ Done(c)
       /\ call[c].data.customCode = Some(CodeBadChar)
       /\ Failed(c, MSG_CODE_REGEX)

====
